---------------------------- MODULE Spec2Model ----------------------------
(***************************************************************************)
(* Model of main.py: the MySQL-dump-to-S3 backup script.                   *)
(*                                                                         *)
(* perform_backup walks DATABASES, calls dump_database and upload_to_s3    *)
(* for each, and then delete_old_backups when at least one dump returned   *)
(* an artifact.  Strings (paths, file names, S3 keys) are sequences of     *)
(* one-character strings, so that strftime, os.path.join, str.split,       *)
(* str.replace and strptime are computed character by character.  A        *)
(* datetime is the tuple <<year, month, day, hour, minute, second,         *)
(* microsecond>>, compared field by field as datetime compares.            *)
(***************************************************************************)
EXTENDS Integers, Sequences, FiniteSets, TLC

VARIABLES
    DATABASES,          \* the configured list (main.py:37), fixed for a run
    pc,                 \* position of perform_backup
    i,                  \* index of the database the for loop is at
    backup_file,        \* what dump_database returned for DATABASES[i]
    backups_generated,  \* perform_backup's list
    clock,              \* the last value datetime.now() returned
    local,              \* the local filesystem: path -> file
    remote,             \* the bucket: key -> LastModified
    retention_date,     \* delete_old_backups' cutoff
    response,           \* what list_objects_v2 returned
    backups_to_delete,  \* delete_old_backups' queue
    qi,                 \* index of the queued key the delete loop is at
    calls,              \* history: every call made, in order
    log,                \* the log file: records [level, fn]
    escaped             \* whether an exception left perform_backup

vars == <<DATABASES, pc, i, backup_file, backups_generated, clock, local,
          remote, retention_date, response, backups_to_delete, qi, calls,
          log, escaped>>

----------------------------------------------------------------------------
(* Bounds of the model.                                                    *)

\* longest configured database list
MaxDbs == 2
\* most objects in the bucket when a run over such a list starts
MaxBucket == 1
\* most objects in the bucket when a run over a single database starts
MaxObjects == 3

----------------------------------------------------------------------------
(* Characters and strings.                                                 *)

\* the characters the model's strings are made of, in code-point order
Alphabet ==
    <<"-", ".", "/", "0", "1", "2", "3", "4", "5", "6", "7", "8", "9", ":",
      "T", "_", "a", "b", "d", "e", "g", "i", "k", "l", "n", "o", "p", "q",
      "s", "t", "x", "z">>

Ord(c) == CHOOSE n \in 1..Len(Alphabet) : Alphabet[n] = c

Digits == <<"0", "1", "2", "3", "4", "5", "6", "7", "8", "9">>

IsDigit(c) == \E n \in 1..Len(Digits) : Digits[n] = c

DigitVal(c) == (CHOOSE n \in 1..Len(Digits) : Digits[n] = c) - 1

DigitChar(n) == Digits[n + 1]

\* s < t as Python (and S3's listing) orders strings: by code point
RECURSIVE StrLess(_, _)
StrLess(s, t) ==
    IF t = <<>> THEN FALSE
    ELSE IF s = <<>> THEN TRUE
    ELSE IF Head(s) # Head(t) THEN Ord(Head(s)) < Ord(Head(t))
    ELSE StrLess(Tail(s), Tail(t))

\* s.startswith(p)
StartsWith(s, p) == Len(p) <= Len(s) /\ SubSeq(s, 1, Len(p)) = p

\* position of the last occurrence of character c in s, 0 when there is none
LastIndexOf(s, c) ==
    IF \E n \in 1..Len(s) : s[n] = c
    THEN CHOOSE n \in 1..Len(s) :
            s[n] = c /\ \A m \in (n + 1)..Len(s) : s[m] # c
    ELSE 0

\* s.split(c)[-1]: what follows the last c, the whole of s when there is none
SplitLast(s, c) == SubSeq(s, LastIndexOf(s, c) + 1, Len(s))

\* s.replace(old, ""): every occurrence of old removed, left to right
RECURSIVE Remove(_, _)
Remove(s, old) ==
    IF s = <<>> THEN <<>>
    ELSE IF StartsWith(s, old) THEN Remove(SubSeq(s, Len(old) + 1, Len(s)), old)
    ELSE <<Head(s)>> \o Remove(Tail(s), old)

\* os.path.basename(p)
Basename(p) == SplitLast(p, "/")

\* os.path.join(a, b) for a relative b
PathJoin(a, b) ==
    IF a = <<>> \/ a[Len(a)] = "/" THEN a \o b ELSE a \o <<"/">> \o b

----------------------------------------------------------------------------
(* datetime.                                                               *)

IsLeap(y) == (y % 4 = 0) /\ ((y % 100 # 0) \/ (y % 400 = 0))

DaysInMonth(y, m) ==
    IF m = 2 THEN (IF IsLeap(y) THEN 29 ELSE 28)
    ELSE IF m \in {4, 6, 9, 11} THEN 30 ELSE 31

\* a < b for two naive datetimes
DtLess(a, b) ==
    \E n \in 1..7 : a[n] < b[n] /\ \A m \in 1..(n - 1) : a[m] = b[m]

\* dt - timedelta(days=1)
PrevDay(dt) ==
    IF dt[3] > 1 THEN [dt EXCEPT ![3] = dt[3] - 1]
    ELSE IF dt[2] > 1
         THEN [dt EXCEPT ![2] = dt[2] - 1,
                         ![3] = DaysInMonth(dt[1], dt[2] - 1)]
         ELSE [dt EXCEPT ![1] = dt[1] - 1, ![2] = 12, ![3] = 31]

\* dt - timedelta(days=n)
RECURSIVE MinusDays(_, _)
MinusDays(dt, n) == IF n = 0 THEN dt ELSE MinusDays(PrevDay(dt), n - 1)

Pad2(n) == <<DigitChar(n \div 10), DigitChar(n % 10)>>

Pad4(n) == Pad2(n \div 100) \o Pad2(n % 100)

\* LOCAL_DATE_FORMAT = "%Y-%m-%dT%H:%M:%S"; dt.strftime(LOCAL_DATE_FORMAT)
Strftime(dt) ==
    Pad4(dt[1]) \o <<"-">> \o Pad2(dt[2]) \o <<"-">> \o Pad2(dt[3]) \o <<"T">>
    \o Pad2(dt[4]) \o <<":">> \o Pad2(dt[5]) \o <<":">> \o Pad2(dt[6])

\* The two-digit alternatives of a numeric directive's pattern, for the
\* digits a and b:
\*   %m 1[0-2]|0[1-9]|[1-9]              %d 3[0-1]|[1-2]\d|0[1-9]|[1-9]
\*   %H 2[0-3]|[0-1]\d|\d                %M [0-5]\d|\d
\*   %S 6[0-1]|[0-5]\d|\d
TwoDigits(directive, a, b) ==
    IF directive = "m" THEN (a = 1 /\ b <= 2) \/ (a = 0 /\ b >= 1)
    ELSE IF directive = "d"
         THEN (a = 3 /\ b <= 1) \/ a \in {1, 2} \/ (a = 0 /\ b >= 1)
    ELSE IF directive = "H" THEN (a = 2 /\ b <= 3) \/ a <= 1
    ELSE IF directive = "M" THEN a <= 5
    ELSE (a = 6 /\ b <= 1) \/ a <= 5

\* the one-digit alternative of the pattern, for the digit a
OneDigit(directive, a) == directive \in {"H", "M", "S"} \/ a >= 1

\* One numeric directive of strptime at position p of s: the two-digit
\* alternatives of its pattern first, then the one-digit one.  n is the
\* number of characters taken (0: no match), v the value.
NumAt(s, p, directive) ==
    IF /\ p + 1 <= Len(s) /\ IsDigit(s[p]) /\ IsDigit(s[p + 1])
       /\ TwoDigits(directive, DigitVal(s[p]), DigitVal(s[p + 1]))
    THEN [n |-> 2, v |-> 10 * DigitVal(s[p]) + DigitVal(s[p + 1])]
    ELSE IF p <= Len(s) /\ IsDigit(s[p]) /\ OneDigit(directive, DigitVal(s[p]))
         THEN [n |-> 1, v |-> DigitVal(s[p])]
         ELSE [n |-> 0, v |-> 0]

\* the literal character c of the format at position p (matched ignoring case)
LitAt(s, p, c) ==
    p <= Len(s) /\ (s[p] = c \/ (c = "T" /\ s[p] = "t"))

ParseFail == [ok |-> FALSE, dt |-> <<>>]

\* datetime.strptime(s, LOCAL_DATE_FORMAT): ok is FALSE where it raises
\* ValueError (no match, unconverted data, or a date that does not exist)
Strptime(s) ==
    IF ~(Len(s) >= 4 /\ \A n \in 1..4 : IsDigit(s[n])) THEN ParseFail
    ELSE
    LET y  == 1000 * DigitVal(s[1]) + 100 * DigitVal(s[2])
              + 10 * DigitVal(s[3]) + DigitVal(s[4])
        mo == NumAt(s, 6, "m")
        pd == 6 + mo.n + 1
        d  == NumAt(s, pd, "d")
        ph == pd + d.n + 1
        h  == NumAt(s, ph, "H")
        pm == ph + h.n + 1
        mi == NumAt(s, pm, "M")
        ps == pm + mi.n + 1
        se == NumAt(s, ps, "S")
    IN  IF /\ LitAt(s, 5, "-")
           /\ mo.n > 0 /\ LitAt(s, pd - 1, "-")
           /\ d.n > 0 /\ LitAt(s, ph - 1, "T")
           /\ h.n > 0 /\ LitAt(s, pm - 1, ":")
           /\ mi.n > 0 /\ LitAt(s, ps - 1, ":")
           /\ se.n > 0
           /\ ps + se.n - 1 = Len(s)
           /\ y >= 1
           /\ d.v <= DaysInMonth(y, mo.v)
           /\ se.v <= 59
        THEN [ok |-> TRUE, dt |-> <<y, mo.v, d.v, h.v, mi.v, se.v, 0>>]
        ELSE ParseFail


----------------------------------------------------------------------------
(* Configuration and the environment's inputs.                             *)

Str_sql == <<".", "s", "q", "l">>
Str_zip == <<".", "z", "i", "p">>
Str_sql_zip == Str_sql \o Str_zip

\* AWS_S3_BACKUP_FOLDER
AWS_S3_BACKUP_FOLDER == <<"b", "k">>

\* PATH_TO_SQL_DUMPS
PATH_TO_SQL_DUMPS == <<"d">>

Db_app == <<"a", "p", "p">>
Db_billing == <<"b", "i", "l", "l", "i", "n", "g">>

\* the database names a configuration may list
DbNames == {Db_app, Db_billing}

\* every list of at most n database names
RECURSIVE DbLists(_)
DbLists(n) ==
    IF n = 0 THEN {<<>>}
    ELSE DbLists(n - 1)
         \cup {Append(l, d) : l \in {m \in DbLists(n - 1) : Len(m) = n - 1},
                              d \in DbNames}

\* timedelta(days=14)
RETENTION_DAYS == 14

\* the values datetime.now() may return
Time_jan == <<2024, 1, 5, 0, 0, 0, 0>>
Time_mar == <<2024, 3, 10, 12, 0, 0, 5>>
Times == {Time_jan, Time_mar}

\* datetime.now(): the wall clock does not run backwards during a run
NowValues(last) == {t \in Times : ~DtLess(t, last)}

\* LastModified values of the objects found in the bucket (timezone-aware)
LM_old == [dt |-> <<2023, 11, 1, 0, 0, 0, 0>>, tz |-> "UTC"]
LM_recent == [dt |-> <<2024, 3, 9, 8, 30, 0, 0>>, tz |-> "UTC"]

\* a key "<folder>/<name>_<tail>"
KeyOf(folder, name, tail) == PathJoin(folder, name \o <<"_">> \o tail)

\* the objects the bucket may hold when the run starts
SampleObjects ==
    { \* dated exactly 14 days before Time_jan
      [Key |-> KeyOf(AWS_S3_BACKUP_FOLDER, Db_app,
                     Strftime(<<2023, 12, 22, 0, 0, 0, 0>>) \o Str_sql_zip),
       LastModified |-> LM_recent],
      \* dated a second earlier
      [Key |-> KeyOf(AWS_S3_BACKUP_FOLDER, Db_billing,
                     Strftime(<<2023, 12, 21, 23, 59, 59, 0>>) \o Str_sql_zip),
       LastModified |-> LM_recent],
      \* a database name with an underscore, dated 14 days and 5
      \* microseconds before Time_mar
      [Key |-> KeyOf(AWS_S3_BACKUP_FOLDER, <<"d", "b", "_", "x">>,
                     Strftime(<<2024, 2, 25, 12, 0, 0, 0>>) \o Str_sql_zip),
       LastModified |-> LM_old],
      \* a timestamp but no .sql.zip suffix
      [Key |-> KeyOf(AWS_S3_BACKUP_FOLDER, Db_app,
                     Strftime(<<2023, 12, 21, 23, 59, 59, 0>>)),
       LastModified |-> LM_recent],
      \* no timestamp after the last underscore
      [Key |-> KeyOf(AWS_S3_BACKUP_FOLDER, Db_app,
                     <<"o", "l", "d">> \o Str_sql_zip),
       LastModified |-> LM_old],
      \* no underscore at all
      [Key |-> PathJoin(AWS_S3_BACKUP_FOLDER,
                        <<"n", "o", "t", "e", "s", ".", "t", "x", "t">>),
       LastModified |-> LM_old],
      \* a date that does not exist
      [Key |-> KeyOf(AWS_S3_BACKUP_FOLDER, Db_app,
                     <<"2", "0", "2", "3", "-", "0", "2", "-", "3", "0", "T",
                       "0", "0", ":", "0", "0", ":", "0", "0">> \o Str_sql_zip),
       LastModified |-> LM_recent],
      \* outside the backup folder
      [Key |-> KeyOf(<<"o", "x">>, Db_app,
                     Strftime(<<2023, 12, 21, 23, 59, 59, 0>>) \o Str_sql_zip),
       LastModified |-> LM_old] }

\* the sample objects a run over several databases may find in the bucket:
\* the expired backup, the stray file, the object outside the folder
RunObjects ==
    {o \in SampleObjects :
        \/ StartsWith(o.Key, KeyOf(AWS_S3_BACKUP_FOLDER, Db_billing, <<>>))
        \/ ~StartsWith(o.Key, AWS_S3_BACKUP_FOLDER)
        \/ LastIndexOf(o.Key, "_") = 0}

\* a bucket holding the objects of S
BucketOf(S) ==
    [k \in {o.Key : o \in S} |->
        (CHOOSE o \in S : o.Key = k).LastModified]

----------------------------------------------------------------------------
(* Values and small helpers of the program state.                          *)

\* Python's None, and like it falsy
None == <<>>

Put(f, k, v) == [x \in DOMAIN f \cup {k} |-> IF x = k THEN v ELSE f[x]]

Del(f, k) == [x \in DOMAIN f \ {k} |-> f[x]]

EmptyMap == [x \in {} |-> None]

\* a local file: what it is, the archive's entry names, and whether the
\* step that wrote it ran to its end
File(kind, entries, complete) ==
    [kind |-> kind, entries |-> entries, complete |-> complete]

LogLine(level, fn) == [level |-> level, fn |-> fn]

Call(op, arg, res, ret) == [op |-> op, arg |-> arg, res |-> res, ret |-> ret]


----------------------------------------------------------------------------
(* dump_database.                                                          *)

\* what the environment does to one dump_database call: every step works,
\* mysqldump exits non-zero, writing the archive raises, os.remove raises
DumpOutcomes == {"ok", "dump_fail", "zip_fail", "remove_fail"}

\* the path dump_database dumps to
DumpPath(db_name, now) ==
    PathJoin(PATH_TO_SQL_DUMPS,
             db_name \o <<"_">> \o Strftime(now) \o Str_sql)

\* an archive entry stored under the whole path of the dump
ZipEntryFullPath(dump_path) == dump_path

\* the name zipf.write stores the dump under
ZipEntryName(dump_path) == Basename(dump_path)

\* The body of dump_database's try.  The shell's redirection creates the
\* dump file before mysqldump runs, and ZipFile(..., "w") creates the
\* archive before the entry is written, so a failing step leaves its file.
DumpTry(db_name, now, outcome, fs) ==
    LET dump_path  == DumpPath(db_name, now)
        compressed == dump_path \o Str_zip
        fs1 == Put(fs, dump_path, File("sql", <<>>, outcome # "dump_fail"))
        fs2 == Put(fs1, compressed,
                   IF outcome = "zip_fail"
                   THEN File("zip", <<>>, FALSE)
                   ELSE File("zip", <<ZipEntryName(dump_path)>>, TRUE))
        fs3 == Del(fs2, dump_path)
    IN  IF outcome = "dump_fail"
        THEN [raised |-> TRUE, ret |-> None, fs |-> fs1]
        ELSE IF outcome \in {"zip_fail", "remove_fail"}
        THEN [raised |-> TRUE, ret |-> None, fs |-> fs2]
        ELSE [raised |-> FALSE, ret |-> compressed, fs |-> fs3]

\* dump_database without its except clause
dump_database_unguarded(db_name, now, outcome, fs) ==
    LET t == DumpTry(db_name, now, outcome, fs)
    IN  [raised |-> t.raised, ret |-> t.ret, fs |-> t.fs,
         log |-> IF t.raised THEN <<>>
                 ELSE <<LogLine("INFO", "dump_database")>>]

dump_database(db_name, now, outcome, fs) ==
    LET t == DumpTry(db_name, now, outcome, fs)
    IN  IF t.raised
        THEN [raised |-> FALSE, ret |-> None, fs |-> t.fs,
              log |-> <<LogLine("ERROR", "dump_database")>>]
        ELSE [raised |-> FALSE, ret |-> t.ret, fs |-> t.fs,
              log |-> <<LogLine("INFO", "dump_database")>>]

----------------------------------------------------------------------------
(* upload_to_s3.                                                           *)

\* the environment of one upload_to_s3 call: every step works,
\* s3_client.upload_file raises, os.remove raises
UploadOutcomes == {"ok", "put_fail", "remove_fail"}

\* the key upload_to_s3 uploads file_path to
S3Path(file_path) == PathJoin(AWS_S3_BACKUP_FOLDER, Basename(file_path))

\* The body of upload_to_s3's try: upload_file, the log line, os.remove.
\* res says how far it got.  upload_file raises too when the file is missing.
UploadTry(file_path, outcome, now, fs, bucket) ==
    LET uploaded == Put(bucket, S3Path(file_path),
                        [dt |-> now, tz |-> "UTC"])
    IN  IF outcome = "put_fail" \/ file_path \notin DOMAIN fs
        THEN [raised |-> TRUE, res |-> "put_fail", fs |-> fs,
              bucket |-> bucket, log |-> <<>>]
        ELSE IF outcome = "remove_fail"
        THEN [raised |-> TRUE, res |-> "remove_fail", fs |-> fs,
              bucket |-> uploaded,
              log |-> <<LogLine("INFO", "upload_to_s3")>>]
        ELSE [raised |-> FALSE, res |-> "ok", fs |-> Del(fs, file_path),
              bucket |-> uploaded,
              log |-> <<LogLine("INFO", "upload_to_s3")>>]

\* an upload_to_s3 that removes the local file in a finally clause
upload_to_s3_finally(file_path, outcome, now, fs, bucket) ==
    LET t == UploadTry(file_path, outcome, now, fs, bucket)
    IN  [raised |-> FALSE, res |-> t.res, fs |-> Del(t.fs, file_path),
         bucket |-> t.bucket,
         log |-> IF t.raised
                 THEN t.log \o <<LogLine("ERROR", "upload_to_s3")>>
                 ELSE t.log]

upload_to_s3(file_path, outcome, now, fs, bucket) ==
    LET t == UploadTry(file_path, outcome, now, fs, bucket)
    IN  [raised |-> FALSE, res |-> t.res, fs |-> t.fs, bucket |-> t.bucket,
         log |-> IF t.raised
                 THEN t.log \o <<LogLine("ERROR", "upload_to_s3")>>
                 ELSE t.log]

----------------------------------------------------------------------------
(* delete_old_backups.                                                     *)

CallOutcomes == {"ok", "fail"}

NoResponse == [ResponseMetadata |-> "none"]

\* the keys of S in the order S3 lists them
RECURSIVE SortedKeys(_)
SortedKeys(S) ==
    IF S = {} THEN <<>>
    ELSE LET k == CHOOSE x \in S : \A y \in S \ {x} : StrLess(x, y)
         IN  <<k>> \o SortedKeys(S \ {k})

\* the {Key, LastModified} entries of the keys, in their order
RECURSIVE ContentsOf(_, _)
ContentsOf(bucket, keys) ==
    IF keys = <<>> THEN <<>>
    ELSE <<[Key |-> Head(keys), LastModified |-> bucket[Head(keys)]]>>
         \o ContentsOf(bucket, Tail(keys))

\* s3_client.list_objects_v2(Bucket, Prefix): no "Contents" when nothing
\* matches
ListObjects(bucket, prefix) ==
    IF \A k \in DOMAIN bucket : ~StartsWith(k, prefix)
    THEN [KeyCount |-> 0]
    ELSE [KeyCount |->
            Cardinality({k \in DOMAIN bucket : StartsWith(k, prefix)}),
          Contents |->
            ContentsOf(bucket,
                SortedKeys({k \in DOMAIN bucket : StartsWith(k, prefix)}))]

\* a scan that reads response["Contents"] without the test
HasContentsUnchecked(resp) == TRUE

\* "Contents" in response
HasContents(resp) == "Contents" \in DOMAIN resp

\* obj["Key"].split("_")[-1].replace(".sql.zip", "")
BackupDateStr(key) == Remove(SplitLast(key, "_"), Str_sql_zip)

\* the inner try/except: the date parsed from the key, else LastModified
\* with its timezone dropped
BackupDate(obj) ==
    LET parsed == Strptime(BackupDateStr(obj.Key))
    IN  IF parsed.ok THEN parsed.dt ELSE obj.LastModified.dt

\* a comparison that also takes the cutoff itself
IsExpiredOrEqual(backup_date, cutoff) == ~DtLess(cutoff, backup_date)

\* backup_date < retention_date
IsExpired(backup_date, cutoff) == DtLess(backup_date, cutoff)

\* the for loop over response["Contents"]: the keys appended to
\* backups_to_delete
RECURSIVE ScanQueue(_, _)
ScanQueue(contents, cutoff) ==
    IF contents = <<>> THEN <<>>
    ELSE (IF IsExpired(BackupDate(Head(contents)), cutoff)
          THEN <<Head(contents).Key>> ELSE <<>>)
         \o ScanQueue(Tail(contents), cutoff)

\* the same loop: its log lines, one for every date that did not parse
RECURSIVE ScanLog(_)
ScanLog(contents) ==
    IF contents = <<>> THEN <<>>
    ELSE (IF Strptime(BackupDateStr(Head(contents).Key)).ok
          THEN <<>> ELSE <<LogLine("INFO", "delete_old_backups")>>)
         \o ScanLog(Tail(contents))

\* delete_old_backups up to its delete loop: the cutoff, the list call and
\* the scan.  raised: the outer try was left for its except.
PruneScan(now, outcome, bucket) ==
    LET cutoff == MinusDays(now, RETENTION_DAYS)
        resp   == ListObjects(bucket, AWS_S3_BACKUP_FOLDER)
    IN  IF outcome = "fail"
        THEN [raised |-> TRUE, cutoff |-> cutoff, response |-> NoResponse,
              queue |-> <<>>, log |-> <<>>]
        ELSE IF ~HasContents(resp)
        THEN [raised |-> FALSE, cutoff |-> cutoff, response |-> resp,
              queue |-> <<>>, log |-> <<>>]
        ELSE IF "Contents" \notin DOMAIN resp
        THEN [raised |-> TRUE, cutoff |-> cutoff, response |-> resp,
              queue |-> <<>>, log |-> <<>>]
        ELSE [raised |-> FALSE, cutoff |-> cutoff, response |-> resp,
              queue |-> ScanQueue(resp.Contents, cutoff),
              log |-> ScanLog(resp.Contents)]

\* where the delete loop stands after queue[n] was deleted
AfterDelete(queue, n) ==
    [pc |-> IF n + 1 > Len(queue) THEN "done" ELSE "delete", qi |-> n + 1]

\* a guard around each delete_object call: the loop goes on
AfterDeleteErrorContinue(queue, n) == AfterDelete(queue, n)

\* where the delete loop stands after delete_object raised on queue[n]: the
\* outer except ends the routine
AfterDeleteError(queue, n) == [pc |-> "done", qi |-> n]

----------------------------------------------------------------------------
(* perform_backup.                                                         *)

\* a pruner called whatever the list holds
ShouldPruneAlways(generated) == TRUE

\* the test of the list inverted
ShouldPruneInverted(generated) == generated = <<>>

\* if backups_generated:
ShouldPrune(generated) == generated # <<>>

\* if backup_file:
Truthy(v) == v # None

\* the process at the call of perform_backup, for a configuration among
\* lists and a bucket of at most n objects of pool
InitWith(lists, pool, n) ==
    /\ DATABASES \in lists
    /\ \E S \in SUBSET pool :
          Cardinality(S) <= n /\ remote = BucketOf(S)
    /\ pc = "loop"
    /\ i = 1
    /\ backup_file = None
    /\ backups_generated = <<>>
    /\ clock = Time_jan
    /\ local = EmptyMap
    /\ retention_date = None
    /\ response = NoResponse
    /\ backups_to_delete = <<>>
    /\ qi = 1
    /\ calls = <<>>
    /\ log = <<>>
    /\ escaped = FALSE

\* for db in DATABASES: a database is left
AtDump == pc = "loop" /\ i <= Len(DATABASES)

\* if backup_file: after a dump that returned an artifact
AtUpload == pc = "upload"

\* the loop is over and backups_generated is not empty
AtPrune == pc = "loop" /\ i > Len(DATABASES) /\ ShouldPrune(backups_generated)

\* the loop is over and backups_generated is empty
AtSkip == pc = "loop" /\ i > Len(DATABASES) /\ ~ShouldPrune(backups_generated)

\* for backup in backups_to_delete: a key is left
AtDelete == pc = "delete" /\ qi <= Len(backups_to_delete)

\* backup_file = dump_database(db)
DumpDatabase ==
    /\ AtDump
    /\ \E now \in NowValues(clock), outcome \in DumpOutcomes :
          \E r \in {dump_database(DATABASES[i], now, outcome, local)} :
              /\ clock' = now
              /\ local' = r.fs
              /\ log' = log \o r.log
              /\ calls' = Append(calls,
                                 Call("dump", DATABASES[i], outcome, r.ret))
              /\ backup_file' = r.ret
              /\ escaped' = r.raised
              /\ IF r.raised THEN pc' = "crashed" /\ i' = i
                 ELSE IF Truthy(r.ret) THEN pc' = "upload" /\ i' = i
                 ELSE pc' = "loop" /\ i' = i + 1
    /\ UNCHANGED <<DATABASES, backups_generated, remote, retention_date,
                   response, backups_to_delete, qi>>

\* upload_to_s3(backup_file); backups_generated.append(backup_file)
UploadToS3 ==
    /\ AtUpload
    /\ \E outcome \in UploadOutcomes :
          \E r \in {upload_to_s3(backup_file, outcome, clock, local,
                                 remote)} :
              /\ local' = r.fs
              /\ remote' = r.bucket
              /\ log' = log \o r.log
              /\ calls' = Append(calls,
                                 Call("upload", backup_file, r.res,
                                      S3Path(backup_file)))
              /\ escaped' = r.raised
              /\ IF r.raised
                 THEN /\ pc' = "crashed"
                      /\ UNCHANGED <<i, backups_generated>>
                 ELSE /\ pc' = "loop"
                      /\ i' = i + 1
                      /\ backups_generated' =
                            Append(backups_generated, backup_file)
    /\ UNCHANGED <<DATABASES, backup_file, clock, retention_date, response,
                   backups_to_delete, qi>>

\* delete_old_backups(), to the start of its delete loop
DeleteOldBackups ==
    /\ AtPrune
    /\ \E now \in NowValues(clock), outcome \in CallOutcomes :
          \E r \in {PruneScan(now, outcome, remote)} :
              /\ clock' = now
              /\ retention_date' = r.cutoff
              /\ response' = r.response
              /\ backups_to_delete' = r.queue
              /\ calls' = calls \o <<Call("prune", <<>>, "ok", <<>>),
                                     Call("list", AWS_S3_BACKUP_FOLDER,
                                          outcome, <<>>)>>
              /\ log' = log \o r.log
                        \o (IF r.raised
                            THEN <<LogLine("ERROR", "delete_old_backups")>>
                            ELSE <<>>)
              /\ pc' = IF ~r.raised /\ r.queue # <<>>
                       THEN "delete" ELSE "done"
    /\ qi' = 1
    /\ UNCHANGED <<DATABASES, i, backup_file, backups_generated, local,
                   remote, escaped>>

\* one turn of delete_old_backups' delete loop
DeleteObject ==
    /\ AtDelete
    /\ \E outcome \in CallOutcomes :
          LET key  == backups_to_delete[qi]
              next == IF outcome = "ok"
                      THEN AfterDelete(backups_to_delete, qi)
                      ELSE AfterDeleteError(backups_to_delete, qi)
          IN  /\ calls' = Append(calls, Call("delete", key, outcome, <<>>))
              /\ remote' = IF outcome = "ok" THEN Del(remote, key) ELSE remote
              /\ log' = Append(log,
                               IF outcome = "ok"
                               THEN LogLine("INFO", "delete_old_backups")
                               ELSE LogLine("ERROR", "delete_old_backups"))
              /\ pc' = next.pc
              /\ qi' = next.qi
    /\ UNCHANGED <<DATABASES, i, backup_file, backups_generated, clock,
                   local, retention_date, response, backups_to_delete,
                   escaped>>

\* the else branch: no backups generated, the warning
SkipPrune ==
    /\ AtSkip
    /\ pc' = "done"
    /\ log' = Append(log, LogLine("WARNING", "perform_backup"))
    /\ UNCHANGED <<DATABASES, i, backup_file, backups_generated, clock,
                   local, remote, retention_date, response,
                   backups_to_delete, qi, calls, escaped>>

Next ==
    \/ DumpDatabase
    \/ UploadToS3
    \/ DeleteOldBackups
    \/ DeleteObject
    \/ SkipPrune

\* runs over every list of at most MaxDbs databases
Init == InitWith(DbLists(MaxDbs), RunObjects, MaxBucket)

Spec == Init /\ [][Next]_vars

\* runs over one database, against the larger buckets
InitRetention == InitWith({<<Db_app>>}, SampleObjects, MaxObjects)

SpecRetention == InitRetention /\ [][Next]_vars


----------------------------------------------------------------------------
(* Vocabulary of the properties.                                           *)

Done == pc = "done"

\* the calls of one kind, in order
CallsOf(op) == SelectSeq(calls, LAMBDA c : c.op = op)

Made(op) == \E n \in DOMAIN calls : calls[n].op = op

Failed(op) == \E n \in DOMAIN calls : calls[n].op = op /\ calls[n].res # "ok"

\* some dump_database call returned an artifact
Dumped == \E n \in DOMAIN calls : calls[n].op = "dump" /\ calls[n].ret # None

\* the list call answered, with objects under the prefix
Listed ==
    /\ \E n \in DOMAIN calls : calls[n].op = "list" /\ calls[n].res = "ok"
    /\ "Contents" \in DOMAIN response

ListedKeys == {response.Contents[n].Key : n \in DOMAIN response.Contents}

ListedObjects == {response.Contents[n] : n \in DOMAIN response.Contents}

ErrorsOf(fn) == SelectSeq(log, LAMBDA l : l.level = "ERROR" /\ l.fn = fn)

EndsWith(s, t) ==
    Len(t) <= Len(s) /\ SubSeq(s, Len(s) - Len(t) + 1, Len(s)) = t

\* ts reads YYYY-MM-DDTHH:MM:SS
TimestampShape(ts) ==
    /\ Len(ts) = 19
    /\ \A n \in 1..19 :
          IF n \in {5, 8} THEN ts[n] = "-"
          ELSE IF n = 11 THEN ts[n] = "T"
          ELSE IF n \in {14, 17} THEN ts[n] = ":"
          ELSE IsDigit(ts[n])

\* the number written in s[a..b]
RECURSIVE NumberIn(_, _, _)
NumberIn(s, a, b) ==
    IF a > b THEN 0 ELSE 10 * NumberIn(s, a, b - 1) + DigitVal(s[b])

\* the 19 characters before the .sql.zip suffix of a key
TimestampOf(key) == SubSeq(key, Len(key) - 26, Len(key) - 8)

\* the date embedded in a key <name>_<timestamp>.sql.zip
EmbeddedDate(key) ==
    <<NumberIn(TimestampOf(key), 1, 4), NumberIn(TimestampOf(key), 6, 7),
      NumberIn(TimestampOf(key), 9, 10), NumberIn(TimestampOf(key), 12, 13),
      NumberIn(TimestampOf(key), 15, 16), NumberIn(TimestampOf(key), 18, 19),
      0>>

\* dt is a date and time of the calendar
IsDateTime(dt) ==
    /\ dt[1] >= 1
    /\ dt[2] \in 1..12
    /\ dt[3] >= 1 /\ dt[3] <= DaysInMonth(dt[1], dt[2])
    /\ dt[4] <= 23 /\ dt[5] <= 59 /\ dt[6] <= 59

\* key matches <name>_<timestamp>.sql.zip with a valid timestamp
HasPattern(key) ==
    /\ Len(key) >= 29
    /\ EndsWith(key, Str_sql_zip)
    /\ key[Len(key) - 27] = "_"
    /\ key[Len(key) - 28] # "/"
    /\ TimestampShape(TimestampOf(key))
    /\ IsDateTime(EmbeddedDate(key))

\* file_name is <database>_<timestamp>.sql.zip
IsArtifactName(file_name, db) ==
    /\ file_name = db \o <<"_">> \o TimestampOf(file_name) \o Str_sql_zip
    /\ TimestampShape(TimestampOf(file_name))

\* days of the year y before its month m
RECURSIVE DaysBeforeMonth(_, _)
DaysBeforeMonth(y, m) ==
    IF m = 1 THEN 0 ELSE DaysBeforeMonth(y, m - 1) + DaysInMonth(y, m - 1)

\* the day number of a date, counted from 0001-01-01
Ordinal(dt) ==
    365 * (dt[1] - 1) + ((dt[1] - 1) \div 4) - ((dt[1] - 1) \div 100)
    + ((dt[1] - 1) \div 400) + DaysBeforeMonth(dt[1], dt[2]) + dt[3]

\* d is strictly earlier than now - 14 days
BeforeCutoff(d, now) ==
    \/ Ordinal(d) < Ordinal(now) - 14
    \/ /\ Ordinal(d) = Ordinal(now) - 14
       /\ DtLess(<<0, 0, 0, d[4], d[5], d[6], d[7]>>,
                 <<0, 0, 0, now[4], now[5], now[6], now[7]>>)

\* d is exactly now - 14 days
AtCutoff(d, now) ==
    /\ Ordinal(d) = Ordinal(now) - 14
    /\ <<d[4], d[5], d[6], d[7]>> = <<now[4], now[5], now[6], now[7]>>

Deleted(key) == key \notin DOMAIN remote


----------------------------------------------------------------------------
(* The retention pruner.                                                   *)

\* every listed key matches <name>_<timestamp>.sql.zip
AllListedMatch == Listed /\ \A k \in ListedKeys : HasPattern(k)

C2_FallbackForNonMatching ==
    (Done /\ Listed /\ ~Failed("delete"))
        => \A o \in ListedObjects :
              ~HasPattern(o.Key)
                 => (Deleted(o.Key) <=> BeforeCutoff(o.LastModified.dt, clock))


\* C9: when the list call returns a response without Contents,
\* delete_old_backups is over at once, with no delete call, no error logged
\* and no exception.
C9_EmptyListingIsNoOp ==
    (Made("list") /\ ~Failed("list") /\ "Contents" \notin DOMAIN response)
        => /\ Done
           /\ ~Made("delete")
           /\ ErrorsOf("delete_old_backups") = <<>>
           /\ ~escaped

\* a bucket that holds an object, but none under the backup folder
C9_Witness ==
    /\ Made("list") /\ ~Failed("list") /\ "Contents" \notin DOMAIN response
    /\ DOMAIN remote # {}

\* position in calls of the delete call that raised, 0 when none did
FailedDeleteAt ==
    IF Failed("delete")
    THEN CHOOSE n \in DOMAIN calls :
            calls[n].op = "delete" /\ calls[n].res # "ok"
    ELSE 0

\* position in the queue of the key whose delete call raised
FailedQueueIndex == Len(CallsOf("delete"))

\* C10: an exception of the list call or of one delete call ends the
\* routine: no call follows it, the keys queued after the failing one are
\* still in the bucket, the keys deleted before it stay deleted, and the
\* exception is logged once and does not leave the routine.  The delete
\* calls go through the complete queue in order: every listed object older
\* than the cutoff was queued before the first delete call.
C10_ErrorAbortsPruning ==
    /\ Failed("list")
         => /\ Done /\ ~Made("delete") /\ ~escaped
            /\ calls[Len(calls)].op = "list"
            /\ Len(ErrorsOf("delete_old_backups")) = 1
    /\ Failed("delete")
         => /\ Done /\ ~escaped
            /\ FailedDeleteAt = Len(calls)
            /\ Len(ErrorsOf("delete_old_backups")) = 1
            /\ \A m \in DOMAIN backups_to_delete :
                  /\ m > FailedQueueIndex => ~Deleted(backups_to_delete[m])
                  /\ m < FailedQueueIndex => Deleted(backups_to_delete[m])
    /\ Made("delete")
         => /\ Listed
            /\ \A n \in DOMAIN CallsOf("delete") :
                  CallsOf("delete")[n].arg = backups_to_delete[n]
            /\ \A o \in ListedObjects :
                  DtLess(BackupDate(o), retention_date)
                     => \E m \in DOMAIN backups_to_delete :
                           backups_to_delete[m] = o.Key

\* the second of three queued keys failed: one deleted before, one left after
C10_Witness ==
    /\ Failed("delete")
    /\ FailedQueueIndex = 2
    /\ Len(backups_to_delete) = 3
    /\ Deleted(backups_to_delete[1])
    /\ ~Deleted(backups_to_delete[3])


----------------------------------------------------------------------------
(* The orchestrator, the dumper and the uploader.                          *)

\* the last call made
LastCall == calls[Len(calls)]

\* C3: the pruner is invoked, and object storage listed or deleted from,
\* only after some dump_database call returned an artifact; and a finished
\* run has invoked it (once) iff some call did, whatever became of the
\* uploads.
C3_PruneIffArtifact ==
    /\ Made("prune") => Dumped
    /\ (Made("list") \/ Made("delete")) => (Made("prune") /\ Dumped)
    /\ Len(CallsOf("prune")) <= 1
    /\ Done => (Made("prune") <=> Dumped)

\* a run that pruned although every upload failed
C3_Witness ==
    /\ Done /\ Made("prune") /\ Made("list")
    /\ Made("upload")
    /\ \A n \in DOMAIN calls : calls[n].op = "upload" => calls[n].res = "put_fail"

\* every dump and every upload of the run worked
AllSucceeded ==
    \A n \in DOMAIN calls :
        calls[n].op \in {"dump", "upload"} => calls[n].res = "ok"

\* one upload call per configured database, in the configured order
UploadsFollowDatabases ==
    /\ Len(CallsOf("upload")) = Len(DATABASES)
    /\ \A k \in DOMAIN CallsOf("upload") :
          IsArtifactName(Basename(CallsOf("upload")[k].arg), DATABASES[k])

\* no upload call comes after the pruner was invoked
NoUploadAfterPrune ==
    \A m, n \in DOMAIN calls :
        (calls[m].op = "upload" /\ calls[n].op = "prune") => m < n

\* C4, as stated: a run over N databases whose dumps and uploads all
\* succeed makes exactly N upload calls, in order, and then exactly one
\* prune invocation.
C4_Original ==
    (Done /\ AllSucceeded)
        => /\ UploadsFollowDatabases
           /\ Len(CallsOf("prune")) = 1
           /\ NoUploadAfterPrune

\* C4, amended: a run over N >= 1 databases whose dumps and uploads all
\* succeed makes exactly N upload calls, in order, and then exactly one
\* prune invocation; over an empty list it makes no upload call and no
\* prune invocation.  No run makes an upload call after the pruner was
\* invoked.
C4_UploadsThenOnePrune ==
    /\ NoUploadAfterPrune
    /\ (Done /\ AllSucceeded)
          => /\ UploadsFollowDatabases
             /\ Len(CallsOf("prune")) = (IF DATABASES = <<>> THEN 0 ELSE 1)

\* a finished run over two different databases where everything worked
C4_Witness ==
    /\ Done /\ AllSucceeded
    /\ Len(DATABASES) = 2 /\ DATABASES[1] # DATABASES[2]
    /\ Len(CallsOf("upload")) = 2
    /\ LastCall.op # "upload"

\* C5, as stated: upload_to_s3 on an existing artifact removes it when the
\* put succeeded, leaves it untouched when the put raised, and raises
\* nothing.
C5_Original ==
    [][(AtUpload /\ backup_file \in DOMAIN local)
          => /\ calls'[Len(calls')].op = "upload"
             /\ ~escaped' /\ pc' # "crashed"
             /\ calls'[Len(calls')].res # "put_fail"
                   => backup_file \notin DOMAIN local'
             /\ calls'[Len(calls')].res = "put_fail" => local' = local]_vars

\* C5, amended: upload_to_s3 on an existing artifact removes it when the put
\* and the removal succeeded, leaves it untouched when the put raised (and
\* in place, though uploaded, when the removal raised), and raises nothing.
C5_UploadRemovesOnSuccess ==
    [][(AtUpload /\ backup_file \in DOMAIN local)
          => /\ calls'[Len(calls')].op = "upload"
             /\ ~escaped' /\ pc' # "crashed"
             /\ calls'[Len(calls')].res = "ok"
                   => backup_file \notin DOMAIN local'
             /\ calls'[Len(calls')].res = "put_fail"
                   => local' = local /\ remote' = remote
             /\ calls'[Len(calls')].res = "remove_fail"
                   => local' = local /\ S3Path(backup_file) \in DOMAIN remote']_vars

\* one upload failed and left its artifact, another worked and removed its own
C5_Witness ==
    /\ \E n \in DOMAIN calls :
          /\ calls[n].op = "upload" /\ calls[n].res = "put_fail"
          /\ calls[n].arg \in DOMAIN local
    /\ \E n \in DOMAIN calls :
          /\ calls[n].op = "upload" /\ calls[n].res = "ok"
          /\ calls[n].arg \notin DOMAIN local

\* C6, as stated: when perform_backup is over, no local file it created is
\* left.
C6_NoLocalFileAfterRun == Done => DOMAIN local = {}

\* the dump file of an archive path: the path without its .zip
DumpFileOf(archive) == SubSeq(archive, 1, Len(archive) - Len(Str_zip))

\* C7: a dump_database call whose steps all work returns the path of an
\* archive <database>_<timestamp>.sql.zip holding one entry, named after the
\* base name of the dump file; the dump file is gone and no other file was
\* written.  A call with a failing step returns None.  No call raises.
C7_DumpContract ==
    [][AtDump
          => /\ calls'[Len(calls')].op = "dump"
             /\ calls'[Len(calls')].arg = DATABASES[i]
             /\ ~escaped' /\ pc' # "crashed"
             /\ calls'[Len(calls')].res = "ok"
                   => /\ backup_file' # None
                      /\ IsArtifactName(Basename(backup_file'), DATABASES[i])
                      /\ backup_file' \in DOMAIN local'
                      /\ local'[backup_file']
                           = File("zip",
                                  <<Basename(DumpFileOf(backup_file'))>>,
                                  TRUE)
                      /\ DumpFileOf(backup_file') \notin DOMAIN local'
                      /\ \A p \in DOMAIN local' :
                            (p \notin DOMAIN local \/ local'[p] # local[p])
                               => p = backup_file'
             /\ calls'[Len(calls')].res # "ok"
                   => backup_file' = None /\ pc' = "loop"]_vars

\* dump_database has just returned an archive
C7_Witness ==
    /\ pc = "upload"
    /\ LastCall.op = "dump" /\ LastCall.res = "ok"
    /\ backup_file \in DOMAIN local
    /\ Len(local[backup_file].entries) = 1

\* perform_backup has a step to take
CanStep == AtDump \/ AtUpload \/ AtPrune \/ AtSkip \/ AtDelete

\* C8: whatever fails, perform_backup calls dump_database once for each
\* configured database, in the configured order, and then ends normally: no
\* exception leaves it and it never stops before its end.
C8_EveryDatabaseAttempted ==
    /\ ~escaped /\ pc # "crashed"
    /\ Len(CallsOf("dump")) <= Len(DATABASES)
    /\ \A n \in DOMAIN CallsOf("dump") : CallsOf("dump")[n].arg = DATABASES[n]
    /\ pc \in {"delete", "done"} => Len(CallsOf("dump")) = Len(DATABASES)
    /\ Done \/ CanStep

\* a finished run whose first dump, second upload and pruning all failed
C8_Witness ==
    /\ Done
    /\ Len(DATABASES) = 2
    /\ CallsOf("dump")[1].res # "ok"
    /\ Failed("upload")
    /\ Failed("list")

=============================================================================
